---------------------------- MODULE Spec2Model ----------------------------
(***************************************************************************)
(* A model of my_site/blog/views.py: the news pipeline behind the blog     *)
(* views.  Text is a sequence of one-character strings, so that slicing,   *)
(* splitting and scanning are computed the way the Python code computes    *)
(* them.  The helper functions of the file are operators; get_cached_news  *)
(* is a state machine over the Django cache, the feed, and the thread pool *)
(* of concurrent.futures.                                                  *)
(***************************************************************************)
EXTENDS Integers, Sequences, FiniteSets, TLC

(***************************************************************************)
(* Python values.  None is a one-element sequence whose element is no      *)
(* character of any text, so that it compares with texts; a missing        *)
(* attribute of a feed entry (AttributeError on access) is Missing, and a  *)
(* meta tag that soup.find does not find is NoTag.                         *)
(***************************************************************************)
None == <<"None">>

Missing == <<"Missing">>

NoTag == <<"NoTag">>

\* Python truthiness of an optional text: None and "" are falsy.
Truthy(x) == x # None /\ x # <<>>

\* str.isspace for the characters of the model (U+00A0 is whitespace to str.split).
IsSpace(ch) == ch \in {" ", "\n", "\t", "U+00A0"}

\* "..." , the default suffix of smart_truncate.
Ellipsis == <<".", ".", ".">>

(***************************************************************************)
(* smart_truncate(content, length=160, suffix='...')                       *)
(***************************************************************************)
DefaultLength == 160

\* The texts of the model run to more than DefaultLength characters, so a
\* scan is a set of positions and its least or greatest element, not a
\* recursion as deep as the text is long.
SetMax(S) == CHOOSE x \in S : \A y \in S : y <= x

SetMin(S) == CHOOSE x \in S : \A y \in S : x <= y

\* The positions of s, from lo to hi, whose character is in chars.
Positions(s, lo, hi, chars) == {i \in lo..hi : s[i] \in chars}

\* The concatenation of the texts f[lo], ..., f[hi].
RECURSIVE Flatten(_, _, _)
Flatten(f, lo, hi) ==
    IF lo > hi THEN <<>>
    ELSE IF lo = hi THEN f[lo]
    ELSE LET mid == (lo + hi) \div 2
         IN  Flatten(f, lo, mid) \o Flatten(f, mid + 1, hi)

\* The index of the last ' ' of s, 0 when s holds none.
LastSpace(s) ==
    LET sp == Positions(s, 1, Len(s), {" "})
    IN  IF sp = {} THEN 0 ELSE SetMax(sp)

\* s.rsplit(' ', 1)[0]: the text before the last ' ', and ALL of s when s
\* holds no ' ' (rsplit then returns the one-element list [s]).
RsplitHead(s) ==
    IF LastSpace(s) = 0 THEN s ELSE SubSeq(s, 1, LastSpace(s) - 1)

\* What a call that ends with IndexError gives: content[-1] of an empty cut.
IndexError == <<"IndexError">>

smart_truncate(content, length, suffix) ==
    IF Len(content) <= length THEN content
    ELSE LET cut == SubSeq(content, 1, length)
         IN  IF cut = <<>> THEN IndexError
             ELSE IF cut[Len(cut)] # " "
             THEN RsplitHead(cut) \o suffix
             ELSE cut \o suffix

(***************************************************************************)
(* clean_text(text)                                                        *)
(***************************************************************************)
\* The least j >= from with s[j] = '>' and no '<' in s[from..j-1]; 0 if none.
TagEnd(s, from) ==
    LET stops == Positions(s, from, Len(s), {"<", ">"})
    IN  IF stops = {} THEN 0
        ELSE IF s[SetMin(stops)] = ">" THEN SetMin(stops) ELSE 0

\* Whether '<[^<]+?>' matches at position i: '<', one or more characters
\* other than '<' (the first may be '>': "<>" alone is no tag), then '>'.
TagAt(s, i) ==
    /\ s[i] = "<" /\ Len(s) >= i + 2 /\ s[i + 1] # "<"
    /\ TagEnd(s, i + 2) # 0

\* Whether position i is inside a match.  A match holds no '<' after its
\* first character, so the matches of the leftmost non-overlapping scan are
\* all the positions where the pattern matches, and the match that covers
\* i starts at the last '<' at or before i.
InTag(s, i) ==
    LET opens == Positions(s, 1, i, {"<"})
    IN  /\ opens # {}
        /\ TagAt(s, SetMax(opens))
        /\ i <= TagEnd(s, SetMax(opens) + 2)

\* re.sub('<[^<]+?>', '', text)
StripTags(s) ==
    Flatten([i \in 1..Len(s) |-> IF InTag(s, i) THEN <<>> ELSE <<s[i]>>], 1, Len(s))

\* html.entities.html5 restricted to the names spelled with the letters of
\* the model's texts (a, g, l, m, p, t).  A name without ';' is one of the
\* legacy entities the table also lists.
Html5 ==
    { [name |-> <<"a","m","p",";">>, val |-> "&"],
      [name |-> <<"a","m","p">>, val |-> "&"],
      [name |-> <<"l","t",";">>, val |-> "<"],
      [name |-> <<"l","t">>, val |-> "<"],
      [name |-> <<"g","t",";">>, val |-> ">"],
      [name |-> <<"g","t">>, val |-> ">"],
      [name |-> <<"a","m","a","l","g",";">>, val |-> "U+2A3F"],
      [name |-> <<"a","p",";">>, val |-> "U+2248"],
      [name |-> <<"g","a","m","m","a",";">>, val |-> "U+03B3"],
      [name |-> <<"g","a","p",";">>, val |-> "U+2A86"],
      [name |-> <<"g","g",";">>, val |-> "U+226B"],
      [name |-> <<"g","g","g",";">>, val |-> "U+22D9"],
      [name |-> <<"g","l",";">>, val |-> "U+2277"],
      [name |-> <<"g","l","a",";">>, val |-> "U+2AA5"],
      [name |-> <<"l","a","p",";">>, val |-> "U+2A85"],
      [name |-> <<"l","a","t",";">>, val |-> "U+2AAB"],
      [name |-> <<"l","g",";">>, val |-> "U+2276"],
      [name |-> <<"l","l",";">>, val |-> "U+226A"],
      [name |-> <<"m","a","l","t",";">>, val |-> "U+2720"],
      [name |-> <<"m","a","p",";">>, val |-> "U+21A6"],
      [name |-> <<"m","p",";">>, val |-> "U+2213"],
      [name |-> <<"p","m",";">>, val |-> "U+00B1"] }

InHtml5(tok) == \E e \in Html5 : e.name = tok

Html5Val(tok) == (CHOOSE e \in Html5 : e.name = tok).val

\* [^\t\n\f <&#;]: a character of a named character reference.
IsNameChar(ch) == ch \notin {"\t", "\n", "\f", " ", "<", "&", "#", ";"}

\* The number of name characters that follow position i of s (the pattern
\* takes at most 32).
NameRun(s, i) ==
    LET last == IF Len(s) < i + 32 THEN Len(s) ELSE i + 32
        stops == {j \in (i + 1)..last : ~IsNameChar(s[j])}
    IN  IF stops = {} THEN last - i ELSE SetMin(stops) - i - 1

\* The reference that starts at the '&' at position i: its length after the
\* '&', with the ';' that may end it; 0 when no name follows.
RefLen(s, i) ==
    LET n == NameRun(s, i)
    IN  IF n = 0 THEN 0
        ELSE IF Len(s) >= i + n + 1 /\ s[i + n + 1] = ";" THEN n + 1 ELSE n

\* The longest proper prefix of tok, of 2 characters or more, that html5
\* lists: its length, or 0.
RECURSIVE LongestName(_, _)
LongestName(tok, x) ==
    IF x < 2 THEN 0
    ELSE IF InHtml5(SubSeq(tok, 1, x)) THEN x
    ELSE LongestName(tok, x - 1)

\* html._replace_charref for a named reference (the text after '&').
ReplaceCharref(tok) ==
    IF InHtml5(tok) THEN <<Html5Val(tok)>>
    ELSE LET x == LongestName(tok, Len(tok) - 1)
         IN  IF x # 0
             THEN <<Html5Val(SubSeq(tok, 1, x))>> \o SubSeq(tok, x + 1, Len(tok))
             ELSE <<"&">> \o tok

\* Whether position i is inside the reference a preceding '&' starts (a
\* name holds no '&', so that is the last '&' before i).
InRef(s, i) ==
    LET amps == Positions(s, 1, i - 1, {"&"})
    IN  amps # {} /\ i <= SetMax(amps) + RefLen(s, SetMax(amps))

\* text.replace('&quot;', '"') in the place of html.unescape: the texts of
\* the model hold no &quot;, so nothing is decoded.
UnescapeQuotOnly(s) == s

\* html.unescape: one pass of _charref.sub; what a replacement produces is
\* not scanned again.
Unescape(s) ==
    Flatten([i \in 1..Len(s) |->
                IF s[i] = "&"
                THEN IF RefLen(s, i) = 0 THEN <<"&">>
                     ELSE ReplaceCharref(SubSeq(s, i + 1, i + RefLen(s, i)))
                ELSE IF InRef(s, i) THEN <<>> ELSE <<s[i]>>],
            1, Len(s))

\* text.replace("  ", " ") in the place of " ".join(text.split()): one pass
\* over the pairs of spaces, so every second space of a run is dropped.
CollapseByReplace(s) ==
    Flatten([i \in 1..Len(s) |->
                LET others == {j \in 1..i : s[j] # " "}
                    start == IF others = {} THEN 1 ELSE SetMax(others) + 1
                IN  IF s[i] = " " /\ (i - start + 1) % 2 = 0 THEN <<>> ELSE <<s[i]>>],
            1, Len(s))

\* " ".join(text.split()): runs of whitespace become one ' ', none at the ends.
Collapse(s) ==
    Flatten([i \in 1..Len(s) |->
                IF IsSpace(s[i]) THEN <<>>
                ELSE IF i > 1 /\ IsSpace(s[i - 1]) /\ \E j \in 1..(i - 1) : ~IsSpace(s[j])
                     THEN <<" ", s[i]>>
                     ELSE <<s[i]>>],
            1, Len(s))

clean_text(text) ==
    IF ~Truthy(text) THEN <<>>
    ELSE Collapse(Unescape(StripTags(text)))

(***************************************************************************)
(* get_real_url(google_url)                                                *)
(***************************************************************************)
\* The index of the first occurrence of ch in s, 0 when there is none.
Find(s, ch) ==
    LET at == Positions(s, 1, Len(s), {ch})
    IN  IF at = {} THEN 0 ELSE SetMin(at)

\* s[i:] of Python, for a 1-based i.
From(s, i) == SubSeq(s, i, Len(s))

IsAlpha(ch) == ch \in {"h", "u", "r", "l", "n", "x"}

\* urllib.parse.scheme_chars over the characters of the model's URLs.
IsSchemeChar(ch) == IsAlpha(ch) \/ ch \in {"2", "+", "-", "."}

\* urlsplit: the URL after its scheme, when the text before the first ':'
\* is a scheme.
AfterScheme(url) ==
    LET i == Find(url, ":")
    IN  IF i > 1 /\ IsAlpha(url[1]) /\ \A k \in 1..(i - 1) : IsSchemeChar(url[k])
        THEN From(url, i + 1)
        ELSE url

\* _splitnetloc(url, 2): the index of the first of '/', '?', '#' from the
\* third character on, Len(url) + 1 when there is none.
NetlocEnd(url, i) ==
    LET stops == Positions(url, i, Len(url), {"/", "?", "#"})
    IN  IF stops = {} THEN Len(url) + 1 ELSE SetMin(stops)

HasNetloc(url) == Len(url) >= 2 /\ url[1] = "/" /\ url[2] = "/"

Netloc(url) == SubSeq(url, 3, NetlocEnd(url, 3) - 1)

\* urlsplit raises ValueError ("Invalid IPv6 URL", or a bracketed host that
\* is no IP address: no text of the model's characters is one).
UrlsplitRaises(url) ==
    LET u == AfterScheme(url)
    IN  HasNetloc(u) /\ (Find(Netloc(u), "[") # 0 \/ Find(Netloc(u), "]") # 0)

\* urlparse(url).query: the fragment goes from the first '#', the query
\* starts after the first '?' of what is left.
UrlQuery(url) ==
    LET u0 == AfterScheme(url)
        u1 == IF HasNetloc(u0) THEN From(u0, NetlocEnd(u0, 3)) ELSE u0
        h == Find(u1, "#")
        u2 == IF h = 0 THEN u1 ELSE SubSeq(u1, 1, h - 1)
        q == Find(u2, "?")
    IN  IF q = 0 THEN <<>> ELSE From(u2, q + 1)

\* The bytes the model's two hex digits spell: %22 is '"', %2F is '/', and
\* a byte of 0x80 or more that is no UTF-8 text decodes to U+FFFD.
PercentByte(a, b) ==
    IF a = "2" /\ b = "2" THEN "\""
    ELSE IF a = "2" /\ b = "F" THEN "/"
    ELSE "U+FFFD"

IsHex(ch) == ch \in {"2", "F"}

\* urllib.parse.unquote
RECURSIVE Unquote(_)
Unquote(s) ==
    IF s = <<>> THEN <<>>
    ELSE IF s[1] = "%" /\ Len(s) >= 3 /\ IsHex(s[2]) /\ IsHex(s[3])
         THEN <<PercentByte(s[2], s[3])>> \o Unquote(From(s, 4))
         ELSE <<s[1]>> \o Unquote(Tail(s))

\* value.replace('+', ' ')
PlusToSpace(s) == [i \in 1..Len(s) |-> IF s[i] = "+" THEN " " ELSE s[i]]

\* parse_qs(query).get('url', [None])[0]: the fields are split at '&', a
\* field without '=' or with a blank value is dropped, name and value are
\* decoded, and the first value named 'url' is the answer.
RECURSIVE FirstUrlValue(_)
FirstUrlValue(query) ==
    IF query = <<>> THEN None
    ELSE LET amp == Find(query, "&")
             field == IF amp = 0 THEN query ELSE SubSeq(query, 1, amp - 1)
             rest == IF amp = 0 THEN <<>> ELSE From(query, amp + 1)
             eq == Find(field, "=")
             name == Unquote(PlusToSpace(SubSeq(field, 1, eq - 1)))
             value == From(field, eq + 1)
         IN  IF eq # 0 /\ value # <<>> /\ name = <<"u", "r", "l">>
             THEN Unquote(PlusToSpace(value))
             ELSE FirstUrlValue(rest)

\* get_real_url with the try/except taken away: the ValueError of urlsplit
\* leaves the function.
get_real_url_unguarded(google_url) ==
    IF UrlsplitRaises(google_url) THEN <<"ValueError">>
    ELSE LET real_url == FirstUrlValue(UrlQuery(google_url))
         IN  IF Truthy(real_url) THEN real_url ELSE google_url

get_real_url(google_url) ==
    IF UrlsplitRaises(google_url) THEN google_url
    ELSE LET real_url == FirstUrlValue(UrlQuery(google_url))
         IN  IF Truthy(real_url) THEN real_url ELSE google_url

(***************************************************************************)
(* parse_date(date_string).  A date text is a sequence of tokens, one per  *)
(* field or separator of "%Y-%m-%dT%H:%M:%SZ".                             *)
(***************************************************************************)
MonthAbbr(m) == IF m = "01" THEN "Jan" ELSE IF m = "02" THEN "Feb" ELSE "?"

\* The days of the month the model's dates name: February has no 30th.
DayInMonth(d, m) == (m = "01" /\ d \in {"07", "30"}) \/ (m = "02" /\ d = "07")

\* Whether strptime(date_string, "%Y-%m-%dT%H:%M:%SZ") succeeds.
StrptimeOk(ds) ==
    /\ Len(ds) = 12
    /\ ds[2] = "-" /\ ds[4] = "-" /\ ds[6] = "T"
    /\ ds[8] = ":" /\ ds[10] = ":" /\ ds[12] = "Z"
    /\ ds[1] \in {"2024"}
    /\ DayInMonth(ds[5], ds[3])
    /\ ds[7] \in {"10"} /\ ds[9] \in {"00"} /\ ds[11] \in {"00"}

\* dt.strftime("%d %b %Y"), and the text itself when strptime raises.
parse_date(date_string) ==
    IF StrptimeOk(date_string)
    THEN <<date_string[5], " ", MonthAbbr(date_string[3]), " ", date_string[1]>>
    ELSE date_string

(***************************************************************************)
(* scrape_article_data(url).  What the GET meets is `page`: how the        *)
(* request ends (kind), the status of a response, and the content of each  *)
(* meta tag of the document (NoTag when soup.find returns None, None when  *)
(* the tag has no content attribute).                                      *)
(***************************************************************************)
NoData == [image |-> None, description |-> None]

\* Whether requests.get is called at all (line 44 returns before it).
IssuesGet(url) == Truthy(url)

\* scrape_article_data that looks for the standard description meta first
\* and for og:description only when there is none.
scrape_article_data_meta_first(url, page) ==
    IF ~Truthy(url) THEN NoData
    ELSE IF page.kind # "response" THEN NoData
    ELSE IF page.status # 200 THEN NoData
    ELSE [image |-> IF page.og_image # NoTag THEN page.og_image ELSE None,
          description |->
              IF page.meta_desc # NoTag THEN clean_text(page.meta_desc)
              ELSE IF page.og_desc # NoTag THEN clean_text(page.og_desc)
              ELSE None]

scrape_article_data(url, page) ==
    IF ~Truthy(url) THEN NoData
    ELSE IF page.kind # "response" THEN NoData       \* except: pass
    ELSE IF page.status # 200 THEN NoData
    ELSE [image |-> IF page.og_image # NoTag THEN page.og_image ELSE None,
          description |->
              IF page.og_desc # NoTag THEN clean_text(page.og_desc)
              ELSE IF page.meta_desc # NoTag THEN clean_text(page.meta_desc)
              ELSE None]

(***************************************************************************)
(* process_single_post(entry).  An entry is a record of its attributes,    *)
(* Missing for one feedparser did not set: reading it raises.              *)
(***************************************************************************)
Placeholder == <<"https://placehold.co/600x400/E30613/FFFFFF?text=PSOE+News">>

\* The call raised (an AttributeError, which nothing in the file catches).
Raised == [title |-> <<"raise">>, date |-> <<"raise">>, excerpt |-> <<"raise">>,
           link |-> <<"raise">>, image |-> <<"raise">>]

\* Lines 98-99 raise when the entry has no title or no link.
RaisesBeforeScrape(entry) == entry.title = Missing \/ entry.link = Missing

\* Lines 104-125 without lines 116-117: the scraped image as it is.
BuildRecordNoPlaceholder(entry, real_link, scraped_data) ==
    IF ~Truthy(scraped_data.description) /\ entry.content = Missing THEN Raised
    ELSE IF entry.published = Missing THEN Raised
    ELSE [title |-> clean_text(entry.title),
          date |-> parse_date(entry.published),
          excerpt |->
              IF Truthy(scraped_data.description)
              THEN smart_truncate(scraped_data.description, DefaultLength, Ellipsis)
              ELSE smart_truncate(clean_text(entry.content), DefaultLength, Ellipsis),
          link |-> real_link,
          image |-> scraped_data.image]

\* Lines 104-125: the record built from the entry and the scraped data.
BuildRecord(entry, real_link, scraped_data) ==
    IF ~Truthy(scraped_data.description) /\ entry.content = Missing THEN Raised
    ELSE IF entry.published = Missing THEN Raised
    ELSE [title |-> clean_text(entry.title),
          date |-> parse_date(entry.published),
          excerpt |->
              IF Truthy(scraped_data.description)
              THEN smart_truncate(scraped_data.description, DefaultLength, Ellipsis)
              ELSE smart_truncate(clean_text(entry.content), DefaultLength, Ellipsis),
          link |-> real_link,
          image |-> IF Truthy(scraped_data.image)
                    THEN scraped_data.image
                    ELSE Placeholder]

\* process_single_post with the try/except of scrape_article_data taken
\* away: a request that ends without a response raises out of the call.
process_single_post_unguarded(entry, page) ==
    IF RaisesBeforeScrape(entry) THEN Raised
    ELSE LET real_link == get_real_url(entry.link)
         IN  IF IssuesGet(real_link) /\ page.kind # "response" THEN Raised
             ELSE BuildRecord(entry, real_link, scrape_article_data(real_link, page))

process_single_post(entry, page) ==
    IF RaisesBeforeScrape(entry) THEN Raised
    ELSE LET real_link == get_real_url(entry.link)
         IN  BuildRecord(entry, real_link, scrape_article_data(real_link, page))

\* The number of page GETs one process_single_post call issues.
PageGets(entry) ==
    IF RaisesBeforeScrape(entry) THEN 0
    ELSE IF IssuesGet(get_real_url(entry.link)) THEN 1 ELSE 0

(***************************************************************************)
(* The inputs of the model: texts, feed entries and pages.                 *)
(***************************************************************************)
\* The largest number of entries of a feed.
MaxEntries == 2

\* The largest text, and the largest limit, smart_truncate is tried on.
MaxText == 6

MaxLimit == 4

\* The clock stops after this many ticks.
MaxTicks == 3

\* A text of n characters: an 'a' everywhere but at the multiples of gap
\* (gap = 0: no space at all).
LongText(n, gap) ==
    [i \in 1..n |-> IF gap # 0 /\ i % gap = 0 THEN " " ELSE "a"]

\* https://g/r?url=h:%2F%2Fn : an alert link that wraps h://n
WrappedLink ==
    <<"h", ":", "/", "/", "l", "/", "r", "?", "u", "r", "l", "=",
      "h", ":", "%", "2", "F", "%", "2", "F", "n">>

PlainLink == <<"h", ":", "/", "/", "x">>

\* A link whose host opens a bracket it never closes: urlsplit raises.
MalformedLink == <<"h", ":", "/", "/", "[", "x">>

\* "<b>ma</b> &amp; pa"
MarkupTitle ==
    <<"<", "b", ">", "m", "a", "<", "/", "b", ">", " ", "&", "a", "m", "p", ";",
      " ", "p", "a">>

PlainTitle == <<"t", "a", "g">>

\* "a  <p>lap</p>\n&gt;"
Snippet ==
    <<"a", " ", " ", "<", "p", ">", "l", "a", "p", "<", "/", "p", ">", "\n",
      "&", "g", "t", ";">>

GoodDate == <<"2024", "-", "01", "-", "07", "T", "10", ":", "00", ":", "00", "Z">>

\* 30 February: strptime raises and the text passes through.
BadDate == <<"2024", "-", "02", "-", "30", "T", "10", ":", "00", ":", "00", "Z">>

Img == <<"h://n/i.png">>

Entry(t, l, p, c) == [title |-> t, link |-> l, published |-> p, content |-> c]

\* The entries process_single_post is tried on, one by one.
AllEntries ==
    { Entry(t, l, p, c) :
        t \in {MarkupTitle, Missing},
        l \in {WrappedLink, PlainLink, MalformedLink, <<>>, Missing},
        p \in {GoodDate, BadDate, Missing},
        c \in {Snippet, <<>>, LongText(DefaultLength + 10, 7),
               LongText(DefaultLength + 10, 0), Missing} }

Page(k, st, im, od, md) ==
    [kind |-> k, status |-> st, og_image |-> im, og_desc |-> od, meta_desc |-> md]

\* The request that ends without a response: a timeout, a transport fault,
\* or a response BeautifulSoup cannot parse.
FaultPages ==
    { Page(k, 0, NoTag, NoTag, NoTag) : k \in {"timeout", "transport", "parsefault"} }

NotFoundPage == Page("response", 404, Img, Snippet, Snippet)

AllPages ==
    FaultPages \cup {NotFoundPage} \cup
    { Page("response", 200, im, od, md) :
        im \in {NoTag, None, <<>>, Img},
        od \in {NoTag, None, <<>>, Snippet, LongText(DefaultLength + 10, 7)},
        md \in {NoTag, MarkupTitle} }

\* The entries and pages of the feeds get_cached_news is run on.  BadEntry
\* has no content: process_single_post raises on it unless the page gives a
\* description.
GoodEntry1 == Entry(MarkupTitle, WrappedLink, GoodDate, Snippet)

GoodEntry2 == Entry(PlainTitle, PlainLink, BadDate, <<"l", "a", "t">>)

BadEntry == Entry(PlainTitle, PlainLink, GoodDate, Missing)

FullPage == Page("response", 200, Img, MarkupTitle, NoTag)

FeedEntries == {GoodEntry1, GoodEntry2, BadEntry}

FeedPages == FaultPages \cup {NotFoundPage, FullPage}

\* All sequences over S of length n or less.
RECURSIVE SeqsUpTo(_, _)
SeqsUpTo(S, n) ==
    IF n = 0 THEN {<<>>}
    ELSE LET shorter == SeqsUpTo(S, n - 1)
         IN  shorter \cup {Append(q, x) : q \in {r \in shorter : Len(r) = n - 1}, x \in S}

\* What feedparser.parse returns: a status and the entries (a feed that
\* answers 301 is parsed too, and has its entries).
Feeds ==
    { [status |-> 200, entries |-> es] : es \in SeqsUpTo(FeedEntries, MaxEntries) }
    \cup { [status |-> 404, entries |-> <<>>],
           [status |-> 301, entries |-> <<GoodEntry1>>] }

(***************************************************************************)
(* The state.  The two views, index and posts, are the callers of          *)
(* get_cached_news; each has its own locals.  The Django cache and the     *)
(* clock are shared.                                                       *)
(***************************************************************************)
Callers == {"index", "posts"}

\* cache.set('psoe_news', posts, 900)
TTL == 900

\* ThreadPoolExecutor(max_workers=10)
MAX_WORKERS == 10

\* One tick of the clock: half a TTL.
TimeStep == TTL \div 2

VARIABLES
    now,          \* the clock of the cache
    cache,        \* the entry under 'psoe_news': [present, value, expires]
    pc,           \* pc[c]: where caller c is in its view
    cached_data,  \* cached_data[c]: what cache.get returned: [found, value]
    feed,         \* feed[c]: what feedparser.parse returned
    fut,          \* fut[c][i]: the state of the future of entry i
    res,          \* res[c][i]: what the call on entry i returned
    posts,        \* posts[c]: list(results) so far
    ret,          \* ret[c]: how get_cached_news ended: [kind, value]
    \* history, read by the properties only
    hit,          \* hit[c]: cache.get found the key present and not expired
    nfetch,       \* nfetch[c]: feedparser.parse calls of this call
    ndisp,        \* ndisp[c]: process_single_post calls started in this call
    ngets,        \* ngets[c]: page GETs issued in this call
    nsets,        \* nsets[c]: cache.set calls of this call
    pages,        \* pages[c][i]: the page the GET of entry i met
    finished,     \* finished[c]: the entries in the order their calls ended
    cache_at_call,\* cache_at_call[c]: the cache entry when the call began
    miss_at,      \* miss_at[c]: when cache.get of this call missed
    last_store,   \* the miss of the latest run that stored: [any, at]
    refetch,      \* refetch[c]: this call fetched the feed inside a window
    \* the function under test of the specifications of one function
    fn_pc, fn_content, fn_length, fn_suffix, fn_entry, fn_page, fn_scraped, fn_out, fn_rec,
    fn_again,     \* what the function returns when applied to fn_out
    fn_parts,     \* the parts fn_content was put together from, when it is a URL
    fn_gets       \* the requests.get calls of the function

pipevars == <<now, cache, pc, cached_data, feed, fut, res, posts, ret,
              hit, nfetch, ndisp, ngets, nsets, pages, finished, cache_at_call, miss_at,
              last_store, refetch>>

fnvars == <<fn_pc, fn_content, fn_length, fn_suffix, fn_entry, fn_page,
            fn_scraped, fn_out, fn_rec, fn_again, fn_parts, fn_gets>>

vars == <<pipevars, fnvars>>

NoEntry == [present |-> FALSE, value |-> <<>>, expires |-> 0]

NoReturn == [kind |-> "none", value |-> <<>>]

\* No result yet (of a future, of a call).
NoResult == [title |-> <<"none">>, date |-> <<"none">>, excerpt |-> <<"none">>,
             link |-> <<"none">>, image |-> <<"none">>]

NoPage == Page("none", 0, NoTag, NoTag, NoTag)

NoFeed == [status |-> 0, entries |-> <<>>]

Never == [any |-> FALSE, at |-> 0]

\* No URL parts.
NoParts == [base |-> [text |-> <<>>, malformed |-> FALSE], fields |-> <<>>, fragment |-> <<>>]

\* The initial value of the function-under-test variables in the pipeline.
FnIdle ==
    /\ fn_pc = "off" /\ fn_content = <<>> /\ fn_length = 0 /\ fn_suffix = <<>>
    /\ fn_entry = GoodEntry1 /\ fn_page = FullPage /\ fn_scraped = NoData
    /\ fn_out = <<>> /\ fn_rec = NoResult /\ fn_again = <<>>
    /\ fn_parts = NoParts /\ fn_gets = 0

PipeIdle ==
    /\ now = 0
    /\ cache = NoEntry
    /\ pc = [c \in Callers |-> "idle"]
    /\ cached_data = [c \in Callers |-> [found |-> FALSE, value |-> <<>>]]
    /\ feed = [c \in Callers |-> NoFeed]
    /\ fut = [c \in Callers |-> <<>>]
    /\ res = [c \in Callers |-> <<>>]
    /\ posts = [c \in Callers |-> <<>>]
    /\ ret = [c \in Callers |-> NoReturn]
    /\ hit = [c \in Callers |-> FALSE]
    /\ nfetch = [c \in Callers |-> 0]
    /\ ndisp = [c \in Callers |-> 0]
    /\ ngets = [c \in Callers |-> 0]
    /\ nsets = [c \in Callers |-> 0]
    /\ pages = [c \in Callers |-> <<>>]
    /\ finished = [c \in Callers |-> <<>>]
    /\ cache_at_call = [c \in Callers |-> NoEntry]
    /\ miss_at = [c \in Callers |-> 0]
    /\ last_store = Never
    /\ refetch = [c \in Callers |-> "no"]

Init == PipeIdle /\ FnIdle

(***************************************************************************)
(* The Django cache.                                                       *)
(***************************************************************************)
\* Whether the entry is there and has not expired at time t.
Live(entry, t) == entry.present /\ t < entry.expires

\* cache.get('psoe_news'): the value, or None (found = FALSE).
CacheGet(entry, t) ==
    IF Live(entry, t) THEN [found |-> TRUE, value |-> entry.value]
    ELSE [found |-> FALSE, value |-> <<>>]

\* The cache entry that never expires in time: a TTL of 0.
CacheSetNoTTL(value, t) == [present |-> TRUE, value |-> value, expires |-> t]

\* cache.set('psoe_news', value, 900) at time t
CacheSet(value, t) == [present |-> TRUE, value |-> value, expires |-> t + TTL]

\* `if cached_data:` : None and the empty list are both falsy.
IsCacheHit(cd) == cd.found /\ cd.value # <<>>

\* `if feed.status != 200` read as `>= 400`: a redirect passes.
FeedFailedOnErrorOnly(f) == f.status >= 400

\* `if feed.status != 200`
FeedFailed(f) == f.status # 200

(***************************************************************************)
(* The views and get_cached_news.                                          *)
(***************************************************************************)
InCall(c) == pc[c] # "idle"

\* The locals and the history of caller c, as a call finds them.
ResetCall(c) ==
    /\ cached_data' = [cached_data EXCEPT ![c] = [found |-> FALSE, value |-> <<>>]]
    /\ feed' = [feed EXCEPT ![c] = NoFeed]
    /\ fut' = [fut EXCEPT ![c] = <<>>]
    /\ res' = [res EXCEPT ![c] = <<>>]
    /\ posts' = [posts EXCEPT ![c] = <<>>]
    /\ ret' = [ret EXCEPT ![c] = NoReturn]
    /\ hit' = [hit EXCEPT ![c] = FALSE]
    /\ nfetch' = [nfetch EXCEPT ![c] = 0]
    /\ ndisp' = [ndisp EXCEPT ![c] = 0]
    /\ ngets' = [ngets EXCEPT ![c] = 0]
    /\ nsets' = [nsets EXCEPT ![c] = 0]
    /\ pages' = [pages EXCEPT ![c] = <<>>]
    /\ finished' = [finished EXCEPT ![c] = <<>>]
    /\ miss_at' = [miss_at EXCEPT ![c] = 0]
    /\ refetch' = [refetch EXCEPT ![c] = "no"]

\* A request reaches view c, which calls get_cached_news.
Call(c) ==
    /\ pc[c] = "idle"
    /\ pc' = [pc EXCEPT ![c] = "get"]
    /\ cache_at_call' = [cache_at_call EXCEPT ![c] = cache]
    /\ UNCHANGED <<now, cache, cached_data, feed, fut, res, posts, ret, hit,
                   nfetch, ndisp, ngets, nsets, pages, finished, miss_at,
                   last_store, refetch, fnvars>>

\* The same, when no other request is being served (non-overlapping calls).
CallAlone(c) == (\A d \in Callers : ~InCall(d)) /\ Call(c)

\* Lines 128-130: cache.get, and the return of a truthy value.
GetStep(c) ==
    /\ pc[c] = "get"
    /\ LET cd == CacheGet(cache, now)
       IN  /\ cached_data' = [cached_data EXCEPT ![c] = cd]
           /\ hit' = [hit EXCEPT ![c] = Live(cache, now)]
           /\ IF IsCacheHit(cd)
              THEN /\ ret' = [ret EXCEPT ![c] = [kind |-> "value", value |-> cd.value]]
                   /\ pc' = [pc EXCEPT ![c] = "done"]
                   /\ UNCHANGED miss_at
              ELSE /\ pc' = [pc EXCEPT ![c] = "parse"]
                   /\ miss_at' = [miss_at EXCEPT ![c] = now]
                   /\ UNCHANGED ret
    /\ UNCHANGED <<now, cache, feed, fut, res, posts, nfetch, ndisp, ngets, nsets,
                   pages, finished, cache_at_call, last_store, refetch,
                   fnvars>>

\* Whether a feed fetch at time t falls in the window of TTL time units that
\* the miss recorded in m opened.
InWindow(m, t) == m.any /\ t < m.at + TTL

\* Lines 132-141: feedparser.parse, the return of [] on a failed feed, and
\* executor.map, which submits one call per entry before it returns.
ParseStep(c, f) ==
    /\ pc[c] = "parse"
    /\ feed' = [feed EXCEPT ![c] = f]
    /\ nfetch' = [nfetch EXCEPT ![c] = @ + 1]
    /\ refetch' = [refetch EXCEPT ![c] =
                      IF InWindow(last_store, now) THEN "yes" ELSE "no"]
    /\ IF FeedFailed(f)
       THEN /\ ret' = [ret EXCEPT ![c] = [kind |-> "value", value |-> <<>>]]
            /\ pc' = [pc EXCEPT ![c] = "done"]
            /\ UNCHANGED <<fut, res, pages>>
       ELSE /\ fut' = [fut EXCEPT ![c] = [i \in 1..Len(f.entries) |-> "pending"]]
            /\ res' = [res EXCEPT ![c] = [i \in 1..Len(f.entries) |-> NoResult]]
            /\ pages' = [pages EXCEPT ![c] = [i \in 1..Len(f.entries) |-> NoPage]]
            /\ pc' = [pc EXCEPT ![c] = "collect"]
            /\ UNCHANGED ret
    /\ UNCHANGED <<now, cache, cached_data, posts, hit, ndisp, ngets, nsets,
                   finished, cache_at_call, miss_at, last_store, fnvars>>

\* The number of calls the pool's threads are running.
Running(c) == Cardinality({i \in DOMAIN fut[c] : fut[c][i] = "running"})

\* A pool that starts a thread for every call submitted.
ThreadPerCall(c) == TRUE

\* The pool has a thread that runs no call: fewer than max_workers calls
\* are running.
HasIdleThread(c) == Running(c) < MAX_WORKERS

\* A thread of the pool takes the next call of the work queue.
WorkerStart(c, i) ==
    /\ i \in DOMAIN fut[c]
    /\ fut[c][i] = "pending"
    /\ \A j \in 1..(i - 1) : fut[c][j] # "pending"
    /\ HasIdleThread(c)
    /\ fut' = [fut EXCEPT ![c][i] = "running"]
    /\ ndisp' = [ndisp EXCEPT ![c] = @ + 1]
    /\ UNCHANGED <<now, cache, pc, cached_data, feed, res, posts, ret, hit, nfetch,
                   ngets, nsets, pages, finished, cache_at_call, miss_at,
                   last_store, refetch, fnvars>>

\* process_single_post and the number of its GETs, tabulated over the
\* entries of the feeds and the pages a GET can meet.
PostOf ==
    [e \in FeedEntries |->
        [pg \in FeedPages \cup {NoPage} |-> process_single_post(e, pg)]]

GetsOf == [e \in FeedEntries |-> PageGets(e)]

\* process_single_post(feed.entries[i]) ends, having met page pg.
WorkerEnds(c, i, pg) ==
    /\ i \in DOMAIN fut[c]
    /\ fut[c][i] = "running"
    /\ LET entry == feed[c].entries[i]
           r == PostOf[entry][pg]
       IN  /\ (GetsOf[entry] = 0) => (pg = NoPage)
           /\ (GetsOf[entry] # 0) => (pg # NoPage)
           /\ fut' = [fut EXCEPT ![c][i] = IF r = Raised THEN "failed" ELSE "done"]
           /\ res' = [res EXCEPT ![c][i] = r]
           /\ pages' = [pages EXCEPT ![c][i] = pg]
           /\ ngets' = [ngets EXCEPT ![c] = @ + GetsOf[entry]]
    /\ UNCHANGED <<now, cache, pc, cached_data, feed, posts, ret, hit, nfetch,
                   ndisp, nsets, cache_at_call, miss_at, last_store,
                   refetch, fnvars>>

\* The same, with the order in which the calls end kept in finished.
WorkerFinish(c, i, pg) ==
    /\ WorkerEnds(c, i, pg)
    /\ finished' = [finished EXCEPT ![c] = Append(@, i)]

\* The same, for the runs whose order of ending is not kept.
WorkerFinishLong(c, i, pg) ==
    /\ WorkerEnds(c, i, pg)
    /\ UNCHANGED finished

\* The futures in the order their calls ended (concurrent.futures.as_completed).
YieldsAsCompleted(c) == {i \in DOMAIN fut[c] : fut[c][i] \in {"done", "failed"}}

\* The future whose result executor.map's iterator yields next: the futures
\* in the order of the entries.
YieldsNext(c) == {Len(posts[c]) + 1} \cap DOMAIN fut[c]

\* A result() that hands a failed call's exception over as a value.
ResultNeverRaises(st) == FALSE

\* future.result() re-raises what the call raised.
ResultRaises(st) == st = "failed"

\* Line 142, one step of list(results): the next result is appended, or its
\* exception leaves the iterator, whose finally cancels the futures not yet
\* started.
CollectStep(c) ==
    /\ pc[c] = "collect"
    /\ \E k \in YieldsNext(c) :
          /\ fut[c][k] \in {"done", "failed"}
          /\ IF ResultRaises(fut[c][k])
             THEN /\ fut' = [fut EXCEPT ![c] =
                               [i \in DOMAIN @ |->
                                   IF @[i] = "pending" THEN "cancelled" ELSE @[i]]]
                  /\ pc' = [pc EXCEPT ![c] = "shutdown"]
                  /\ UNCHANGED posts
             ELSE /\ fut' = [fut EXCEPT ![c][k] = "yielded"]
                  /\ posts' = [posts EXCEPT ![c] = Append(@, res[c][k])]
                  /\ UNCHANGED pc
    /\ UNCHANGED <<now, cache, cached_data, feed, res, ret, hit, nfetch, ndisp,
                   ngets, nsets, pages, finished, cache_at_call, miss_at,
                   last_store, refetch, fnvars>>

\* A cache.set inside the loop over the results: a list that has its first
\* record is stored.
CollectedSome(c) == Len(posts[c]) >= 1 \/ Len(fut[c]) = 0

\* list(results) has taken the result of every future.
Collected(c) == Len(posts[c]) = Len(fut[c])

\* Lines 144-146: every result is in posts; cache.set and return.
StoreStep(c) ==
    /\ pc[c] = "collect"
    /\ Collected(c)
    /\ cache' = CacheSet(posts[c], now)
    /\ nsets' = [nsets EXCEPT ![c] = @ + 1]
    /\ last_store' = [any |-> TRUE, at |-> miss_at[c]]
    /\ ret' = [ret EXCEPT ![c] = [kind |-> "value", value |-> posts[c]]]
    /\ pc' = [pc EXCEPT ![c] = "done"]
    /\ UNCHANGED <<now, cached_data, feed, fut, res, posts, hit, nfetch, ndisp,
                   ngets, pages, finished, cache_at_call, miss_at, refetch,
                   fnvars>>

\* The exception leaves the with block: executor.shutdown(wait=True) waits
\* for the running calls, then get_cached_news raises.
ShutdownStep(c) ==
    /\ pc[c] = "shutdown"
    /\ Running(c) = 0
    /\ ret' = [ret EXCEPT ![c] = [kind |-> "raise", value |-> <<>>]]
    /\ pc' = [pc EXCEPT ![c] = "raised"]
    /\ UNCHANGED <<now, cache, cached_data, feed, fut, res, posts, hit, nfetch,
                   ndisp, ngets, nsets, pages, finished, cache_at_call, miss_at,
                   last_store, refetch, fnvars>>

\* The view renders its response (or the exception becomes the response)
\* and the request ends.
Respond(c) ==
    /\ pc[c] \in {"done", "raised"}
    /\ pc' = [pc EXCEPT ![c] = "idle"]
    /\ cache_at_call' = [cache_at_call EXCEPT ![c] = NoEntry]
    /\ ResetCall(c)
    /\ UNCHANGED <<now, cache, last_store, fnvars>>

\* The clock advances.
Tick ==
    /\ now < MaxTicks * TimeStep
    /\ now' = now + TimeStep
    /\ UNCHANGED <<cache, pc, cached_data, feed, fut, res, posts, ret, hit, nfetch,
                   ndisp, ngets, nsets, pages, finished, cache_at_call, miss_at,
                   last_store, refetch, fnvars>>

\* The feeds and pages of the cache layer's specification: entries that
\* process_single_post takes whatever their page, and a page that answers
\* or does not.
CacheFeeds ==
    { [status |-> 200, entries |-> es] : es \in SeqsUpTo({GoodEntry1}, MaxEntries) }
    \cup { [status |-> 404, entries |-> <<>>],
           [status |-> 301, entries |-> <<GoodEntry1>>] }

CachePages == {FullPage, Page("timeout", 0, NoTag, NoTag, NoTag)}

\* Requests served one after the other, as the clock advances.
Next ==
    \/ Tick
    \/ \E c \in Callers : CallAlone(c)
    \/ \E c \in Callers : GetStep(c)
    \/ \E c \in Callers : \E f \in CacheFeeds : ParseStep(c, f)
    \/ \E c \in Callers : \E i \in 1..(MaxEntries + 1) : WorkerStart(c, i)
    \/ \E c \in Callers : \E i \in 1..(MaxEntries + 1) :
          \E pg \in CachePages : WorkerFinish(c, i, pg)
    \/ \E c \in Callers : CollectStep(c)
    \/ \E c \in Callers : StoreStep(c)
    \/ \E c \in Callers : Respond(c)

Spec == Init /\ [][Next]_vars

\* A request that finds the cache cold.
CallCold(c) == cache = NoEntry /\ CallAlone(c)

\* One run of the pool on a cold cache, over every feed and every page; the
\* clock stands still.
NextPool ==
    \/ \E c \in {"posts"} : CallCold(c)
    \/ \E c \in {"posts"} : GetStep(c)
    \/ \E c \in {"posts"} : \E f \in Feeds : ParseStep(c, f)
    \/ \E c \in {"posts"} : \E i \in 1..(MaxEntries + 1) : WorkerStart(c, i)
    \/ \E c \in {"posts"} : \E i \in 1..(MaxEntries + 1) :
          \E pg \in FeedPages \cup {NoPage} : WorkerFinish(c, i, pg)
    \/ \E c \in {"posts"} : CollectStep(c)
    \/ \E c \in {"posts"} : StoreStep(c)
    \/ \E c \in {"posts"} : ShutdownStep(c)
    \/ \E c \in {"posts"} : Respond(c)

SpecPool == Init /\ [][NextPool]_vars

(***************************************************************************)
(* Requests that overlap: the two views call get_cached_news while the     *)
(* other's call is under way, as the clock advances.                       *)
(***************************************************************************)
RaceFeeds ==
    { [status |-> 200, entries |-> <<GoodEntry1>>],
      [status |-> 200, entries |-> <<GoodEntry2, GoodEntry1>>] }

NextRace ==
    \/ Tick
    \/ \E c \in Callers : Call(c)
    \/ \E c \in Callers : GetStep(c)
    \/ \E c \in Callers : \E f \in RaceFeeds : ParseStep(c, f)
    \/ \E c \in Callers : \E i \in 1..(MaxEntries + 1) : WorkerStart(c, i)
    \/ \E c \in Callers : \E i \in 1..(MaxEntries + 1) : WorkerFinish(c, i, FullPage)
    \/ \E c \in Callers : CollectStep(c)
    \/ \E c \in Callers : StoreStep(c)
    \/ \E c \in Callers : Respond(c)

SpecRace == Init /\ [][NextRace]_vars

(***************************************************************************)
(* One run on a cold cache over a feed of more entries than the pool has   *)
(* threads, and over the short feeds with pages that answer or time out.   *)
(* The pages of the long feed all answer, and the order in which its calls *)
(* end is not kept.                                                        *)
(***************************************************************************)
\* The long feeds have from MAX_WORKERS + 1 to MAX_WORKERS + MaxExtra entries.
MaxExtra == 1

LongFeeds ==
    { [status |-> 200, entries |-> [i \in 1..n |-> GoodEntry1]] :
        n \in (MAX_WORKERS + 1)..(MAX_WORKERS + MaxExtra) }

ShortFeeds == {f \in CacheFeeds : f.status = 200}

IsLong(c) == Len(fut[c]) > MAX_WORKERS

StartLong(c) == \E i \in 1..(MAX_WORKERS + MaxExtra) : WorkerStart(c, i)

FinishLong(c) ==
    \E i \in 1..(MAX_WORKERS + MaxExtra) :
        \/ ~IsLong(c) /\ \E pg \in CachePages : WorkerFinish(c, i, pg)
        \/ IsLong(c) /\ WorkerFinishLong(c, i, FullPage)

NextLong ==
    \/ \E c \in {"posts"} : CallCold(c)
    \/ \E c \in {"posts"} : GetStep(c)
    \/ \E c \in {"posts"} : \E f \in LongFeeds \cup ShortFeeds : ParseStep(c, f)
    \/ \E c \in {"posts"} : StartLong(c)
    \/ \E c \in {"posts"} : FinishLong(c)
    \/ \E c \in {"posts"} : CollectStep(c)
    \/ \E c \in {"posts"} : StoreStep(c)
    \/ \E c \in {"posts"} : Respond(c)

SpecLong == Init /\ [][NextLong]_vars

\* The same run when the threads of the pool are scheduled and every call
\* ends: a thread that can take a call takes one, a running call ends, the
\* caller's thread goes on when the result it waits for is there.
SpecLongFair ==
    /\ SpecLong
    /\ \A c \in {"posts"} :
          /\ WF_vars(StartLong(c))
          /\ WF_vars(FinishLong(c))
          /\ WF_vars(CollectStep(c))
          /\ WF_vars(StoreStep(c))

(***************************************************************************)
(* smart_truncate on its own: every text of MaxText characters or less     *)
(* over a letter and the space, every limit from 0 to MaxLimit.            *)
(***************************************************************************)
TruncTexts == SeqsUpTo({"a", " "}, MaxText)

InitTrunc ==
    /\ PipeIdle
    /\ fn_pc = "ready"
    /\ fn_content \in TruncTexts
    /\ fn_length \in 0..MaxLimit
    /\ fn_suffix \in {Ellipsis, <<>>}
    /\ fn_entry = GoodEntry1 /\ fn_page = FullPage /\ fn_scraped = NoData
    /\ fn_out = <<>> /\ fn_rec = NoResult /\ fn_again = <<>>
    /\ fn_parts = NoParts /\ fn_gets = 0

Truncate ==
    /\ fn_pc = "ready"
    /\ fn_out' = smart_truncate(fn_content, fn_length, fn_suffix)
    /\ fn_pc' = "done"
    /\ UNCHANGED <<pipevars, fn_parts, fn_gets, fn_content, fn_length, fn_suffix, fn_entry, fn_page,
                   fn_scraped, fn_rec, fn_again>>

NextTrunc == Truncate

SpecTrunc == InitTrunc /\ [][NextTrunc]_vars

(***************************************************************************)
(* process_single_post on its own: every entry of AllEntries against every *)
(* page of AllPages, in the two steps of the function: the scrape, then    *)
(* the record.                                                             *)
(***************************************************************************)
InitEntry ==
    /\ PipeIdle
    /\ fn_pc = "ready"
    /\ fn_entry \in AllEntries
    /\ fn_page \in AllPages
    /\ fn_content = <<>> /\ fn_length = 0 /\ fn_suffix = <<>>
    /\ fn_scraped = NoData /\ fn_out = <<>> /\ fn_rec = NoResult /\ fn_again = <<>>
    /\ fn_parts = NoParts /\ fn_gets = 0

\* Lines 98-102
ScrapeStep ==
    /\ fn_pc = "ready"
    /\ IF RaisesBeforeScrape(fn_entry)
       THEN /\ fn_rec' = Raised
            /\ fn_pc' = "done"
            /\ UNCHANGED <<fn_scraped, fn_out>>
       ELSE /\ fn_out' = get_real_url(fn_entry.link)
            /\ fn_scraped' = scrape_article_data(get_real_url(fn_entry.link), fn_page)
            /\ fn_pc' = "scraped"
            /\ UNCHANGED fn_rec
    /\ UNCHANGED <<pipevars, fn_parts, fn_gets, fn_content, fn_length, fn_suffix, fn_entry, fn_page, fn_again>>

\* Lines 104-125
BuildStep ==
    /\ fn_pc = "scraped"
    /\ fn_rec' = BuildRecord(fn_entry, fn_out, fn_scraped)
    /\ fn_pc' = "done"
    /\ UNCHANGED <<pipevars, fn_parts, fn_gets, fn_content, fn_length, fn_suffix, fn_entry, fn_page,
                   fn_scraped, fn_out, fn_again>>

NextEntry == ScrapeStep \/ BuildStep

SpecEntry == InitEntry /\ [][NextEntry]_vars

(***************************************************************************)
(* clean_text on its own, applied twice: every text of MaxTokens pieces or *)
(* less, a piece being a reference, a tag, or one character; and None.     *)
(***************************************************************************)
\* The most pieces of a text clean_text is tried on.
MaxTokens == 3

CleanTokens ==
    { <<"&", "a", "m", "p", ";">>, <<"&", "l", "t", ";">>, <<"&", "g", "t", ";">>,
      <<"<", "t", ">">>, <<"l", "t", ";">>, <<"a">>, <<" ">>, <<"\n">>,
      <<"<">>, <<">">>, <<"&">> }

CleanTexts ==
    { Flatten(q, 1, Len(q)) : q \in SeqsUpTo(CleanTokens, MaxTokens) } \cup {None}

InitClean ==
    /\ PipeIdle
    /\ fn_pc = "ready"
    /\ fn_content \in CleanTexts
    /\ fn_length = 0 /\ fn_suffix = <<>>
    /\ fn_entry = GoodEntry1 /\ fn_page = FullPage /\ fn_scraped = NoData
    /\ fn_out = <<>> /\ fn_rec = NoResult /\ fn_again = <<>>
    /\ fn_parts = NoParts /\ fn_gets = 0

\* clean_text(text)
CleanStep ==
    /\ fn_pc = "ready"
    /\ fn_out' = clean_text(fn_content)
    /\ fn_pc' = "cleaned"
    /\ UNCHANGED <<pipevars, fn_parts, fn_gets, fn_content, fn_length, fn_suffix, fn_entry, fn_page,
                   fn_scraped, fn_rec, fn_again>>

\* clean_text of what clean_text returned
CleanAgain ==
    /\ fn_pc = "cleaned"
    /\ fn_again' = clean_text(fn_out)
    /\ fn_pc' = "done"
    /\ UNCHANGED <<pipevars, fn_parts, fn_gets, fn_content, fn_length, fn_suffix, fn_entry, fn_page,
                   fn_scraped, fn_rec, fn_out>>

NextClean == CleanStep \/ CleanAgain

SpecClean == InitClean /\ [][NextClean]_vars

(***************************************************************************)
(* get_real_url on its own: every URL put together from a base, MaxFields  *)
(* query fields or less, and a fragment.                                   *)
(***************************************************************************)
\* The most fields of a query.
MaxFields == 2

\* What comes before the query: "h://l/r", "h://l", "r" and, with a host
\* that opens a bracket it never closes, "h://[l/r".
UrlBases ==
    { [text |-> <<"h", ":", "/", "/", "l", "/", "r">>, malformed |-> FALSE],
      [text |-> <<"h", ":", "/", "/", "l">>, malformed |-> FALSE],
      [text |-> <<"r">>, malformed |-> FALSE],
      [text |-> <<"h", ":", "/", "/", "[", "l", "/", "r">>, malformed |-> TRUE] }

\* The fields of a query as they are written, with the name and the value
\* a reader of the URL takes them to have (None: no value, or a blank one):
\* "url=h://x", "url=h:%2F%2Fn", "url=n+x", "url=", "url", "x=u", "=x".
UrlFields ==
    { [raw |-> <<"u", "r", "l", "=", "h", ":", "/", "/", "x">>,
       name |-> "url", value |-> <<"h", ":", "/", "/", "x">>],
      [raw |-> <<"u", "r", "l", "=", "h", ":", "%", "2", "F", "%", "2", "F", "n">>,
       name |-> "url", value |-> <<"h", ":", "/", "/", "n">>],
      [raw |-> <<"u", "r", "l", "=", "n", "+", "x">>,
       name |-> "url", value |-> <<"n", " ", "x">>],
      [raw |-> <<"u", "r", "l", "=">>, name |-> "url", value |-> None],
      [raw |-> <<"u", "r", "l">>, name |-> "url", value |-> None],
      [raw |-> <<"x", "=", "u">>, name |-> "x", value |-> <<"u">>],
      [raw |-> <<"=", "x">>, name |-> "", value |-> <<"x">>] }

\* No fragment, or "#url=u".
UrlFragments == {<<>>, <<"#", "u", "r", "l", "=", "u">>}

UrlParts ==
    [base : UrlBases, fields : SeqsUpTo(UrlFields, MaxFields), fragment : UrlFragments]

\* The URL of the parts: the fields follow a '?' and are joined by '&'.
UrlText(parts) ==
    LET n == Len(parts.fields)
        field == [i \in 1..n |->
                    IF i = 1 THEN parts.fields[i].raw ELSE <<"&">> \o parts.fields[i].raw]
    IN  parts.base.text
        \o (IF n = 0 THEN <<>> ELSE <<"?">> \o Flatten(field, 1, n))
        \o parts.fragment

InitUrl ==
    /\ PipeIdle
    /\ fn_pc = "ready"
    /\ fn_parts \in UrlParts
    /\ fn_content = UrlText(fn_parts)
    /\ fn_length = 0 /\ fn_suffix = <<>>
    /\ fn_entry = GoodEntry1 /\ fn_page = FullPage /\ fn_scraped = NoData
    /\ fn_out = <<>> /\ fn_rec = NoResult /\ fn_again = <<>> /\ fn_gets = 0

\* get_real_url(google_url)
Resolve ==
    /\ fn_pc = "ready"
    /\ fn_out' = get_real_url(fn_content)
    /\ fn_pc' = "done"
    /\ UNCHANGED <<pipevars, fn_parts, fn_gets, fn_content, fn_length, fn_suffix, fn_entry,
                   fn_page, fn_scraped, fn_rec, fn_again>>

NextUrl == Resolve

SpecUrl == InitUrl /\ [][NextUrl]_vars

(***************************************************************************)
(* scrape_article_data on its own: no URL, an empty one and a URL, against *)
(* every page of AllPages.                                                 *)
(***************************************************************************)
ScrapeUrls == {None, <<>>, PlainLink}

InitScrape ==
    /\ PipeIdle
    /\ fn_pc = "ready"
    /\ fn_content \in ScrapeUrls
    /\ fn_page \in AllPages
    /\ fn_length = 0 /\ fn_suffix = <<>>
    /\ fn_entry = GoodEntry1 /\ fn_scraped = NoData
    /\ fn_out = <<>> /\ fn_rec = NoResult /\ fn_again = <<>>
    /\ fn_parts = NoParts /\ fn_gets = 0

\* scrape_article_data(url): requests.get is called once, at line 48, when
\* line 44 has not returned.
Scrape ==
    /\ fn_pc = "ready"
    /\ fn_gets' = fn_gets + (IF IssuesGet(fn_content) THEN 1 ELSE 0)
    /\ fn_scraped' = scrape_article_data(fn_content, fn_page)
    /\ fn_pc' = "done"
    /\ UNCHANGED <<pipevars, fn_parts, fn_content, fn_length, fn_suffix, fn_entry,
                   fn_page, fn_out, fn_rec, fn_again>>

NextScrape == Scrape

SpecScrape == InitScrape /\ [][NextScrape]_vars

(***************************************************************************)
(* The properties.                                                         *)
(***************************************************************************)
\* Whether caller c has returned a list.
Returned(c) == pc[c] = "done" /\ ret[c].kind = "value"

\* C1: a call that finds the key present and not expired returns exactly
\* the stored list, fetches no feed and starts no process_single_post call,
\* whatever the length of the stored list.
C1_HitDoesNoWork ==
    \A c \in Callers :
        hit[c] =>
            /\ nfetch[c] = 0
            /\ ndisp[c] = 0
            /\ pc[c] = "done" => (ret[c].kind = "value" /\ ret[c].value = cache.value)

\* C2, as claimed: every call that misses (key absent or expired) stores
\* what it returns: when it returns, the cache holds a live entry equal to
\* the returned list, set with a TTL of 900, whatever the feed answered.
C2_MissStoresWhatItReturns ==
    [][\A c \in Callers :
          (pc[c] # "done" /\ pc'[c] = "done" /\ ~hit'[c]) =>
              /\ Live(cache', now')
              /\ cache'.value = ret'[c].value
              /\ cache'.expires = now' + TTL
              /\ nsets'[c] = 1]_vars

\* C2, amended: a call that misses and whose feed answers 200 stores the
\* list it returns with a TTL of 900: when it returns, the cache holds a
\* live entry equal to the returned list.  A call that misses and whose feed
\* answers another status returns [] and leaves the cache as it was.
C2_MissStoresOnGoodFeed ==
    [][\A c \in Callers :
          (pc[c] # "done" /\ pc'[c] = "done" /\ ~hit'[c]) =>
              IF feed'[c].status = 200
              THEN /\ Live(cache', now')
                   /\ cache'.value = ret'[c].value
                   /\ cache'.expires = now' + TTL
                   /\ nsets'[c] = 1
                   /\ nfetch'[c] = 1
              ELSE /\ ret'[c].value = <<>>
                   /\ cache' = cache
                   /\ nsets'[c] = 0]_vars

\* C2's case: a miss has returned a list of two records, and the cache
\* holds that list, live.
C2_Witness ==
    \E c \in Callers :
        /\ Returned(c) /\ ~hit[c] /\ feed[c].status = 200
        /\ Len(ret[c].value) = 2
        /\ cache.value = ret[c].value /\ Live(cache, now)

\* C3: with requests served one after the other, no feed is fetched inside
\* the window of 900 time units opened by a miss (here: a miss whose run
\* stored its list, the reading most favourable to the claim), and a call
\* that misses fetches the feed exactly once.
C3_OneRunPerWindow ==
    \A c \in Callers :
        /\ refetch[c] = "no"
        /\ (pc[c] = "done" /\ ~hit[c]) => nfetch[c] = 1

\* C4: the list a run returns has at position i the record made from
\* entry i and the page its own GET met, in whatever order the calls ended.
C4_OrderPreserved ==
    \A c \in Callers :
        (Returned(c) /\ feed[c].status = 200) =>
            /\ Len(ret[c].value) = Len(feed[c].entries)
            /\ \A i \in 1..Len(feed[c].entries) :
                  ret[c].value[i] = process_single_post(feed[c].entries[i], pages[c][i])

\* C4's case: the calls ended in the reverse of the order of the entries,
\* of which the first two differ, and the run returned.
C4_Witness ==
    \E c \in Callers :
        /\ Returned(c) /\ feed[c].status = 200
        /\ Len(feed[c].entries) >= 2
        /\ feed[c].entries[1] # feed[c].entries[2]
        /\ ret[c].value[1] # ret[c].value[2]
        /\ finished[c] = [k \in 1..Len(feed[c].entries) |-> Len(feed[c].entries) + 1 - k]

\* An entry with every attribute process_single_post reads.
WellFormed(e) ==
    e.title # Missing /\ e.link # Missing /\ e.published # Missing /\ e.content # Missing

\* The records of the two well-formed entries of the feeds, written out:
\* with the data of FullPage, and with no scraped data.
Enriched(e) ==
    IF e = GoodEntry1
    THEN [title |-> <<"m", "a", " ", "&", " ", "p", "a">>,
          date |-> <<"07", " ", "Jan", " ", "2024">>,
          excerpt |-> <<"m", "a", " ", "&", " ", "p", "a">>,
          link |-> <<"h", ":", "/", "/", "n">>,
          image |-> <<"h://n/i.png">>]
    ELSE [title |-> <<"t", "a", "g">>,
          date |-> <<"2024", "-", "02", "-", "30", "T", "10", ":", "00", ":", "00", "Z">>,
          excerpt |-> <<"m", "a", " ", "&", " ", "p", "a">>,
          link |-> <<"h", ":", "/", "/", "x">>,
          image |-> <<"h://n/i.png">>]

Degraded(e) ==
    IF e = GoodEntry1
    THEN [title |-> <<"m", "a", " ", "&", " ", "p", "a">>,
          date |-> <<"07", " ", "Jan", " ", "2024">>,
          excerpt |-> <<"a", " ", "l", "a", "p", " ", ">">>,
          link |-> <<"h", ":", "/", "/", "n">>,
          image |-> <<"https://placehold.co/600x400/E30613/FFFFFF?text=PSOE+News">>]
    ELSE [title |-> <<"t", "a", "g">>,
          date |-> <<"2024", "-", "02", "-", "30", "T", "10", ":", "00", ":", "00", "Z">>,
          excerpt |-> <<"l", "a", "t">>,
          link |-> <<"h", ":", "/", "/", "x">>,
          image |-> <<"https://placehold.co/600x400/E30613/FFFFFF?text=PSOE+News">>]

\* C5: on a feed of well-formed entries no process_single_post call raises,
\* whatever its GET met (a page, a status other than 200, a timeout, a
\* transport fault, a parse fault); the run returns one record per entry; the
\* record of an entry whose GET met FullPage is the enriched record of that
\* entry whatever the other GETs met, and the record of any other entry is
\* its degraded record.
C5_FailureAbsorbed ==
    \A c \in Callers :
        (feed[c].status = 200 /\ \A i \in 1..Len(feed[c].entries) : WellFormed(feed[c].entries[i])) =>
            /\ \A i \in DOMAIN fut[c] : fut[c][i] # "failed"
            /\ pc[c] \notin {"shutdown", "raised"}
            /\ Returned(c) =>
                  /\ Len(ret[c].value) = Len(feed[c].entries)
                  /\ \A i \in 1..Len(feed[c].entries) :
                        ret[c].value[i] =
                            IF pages[c][i] = FullPage
                            THEN Enriched(feed[c].entries[i])
                            ELSE Degraded(feed[c].entries[i])

\* C5's case: a run of two well-formed entries returned; the GET of the
\* first met FullPage and the GET of the second timed out.
C5_Witness ==
    \E c \in Callers :
        /\ Returned(c) /\ feed[c].status = 200
        /\ feed[c].entries = <<GoodEntry1, GoodEntry2>>
        /\ pages[c][1] = FullPage /\ pages[c][2].kind = "timeout"
        /\ ret[c].value = <<Enriched(GoodEntry1), Degraded(GoodEntry2)>>

\* C6: when the feed answers a status other than 200, get_cached_news
\* returns [] at once: no process_single_post call is submitted or started,
\* no page is fetched, nothing is stored and nothing is raised.
C6_FeedFailureYieldsEmpty ==
    \A c \in Callers :
        (feed[c] # NoFeed /\ feed[c].status # 200) =>
            /\ pc[c] = "done"
            /\ ret[c] = [kind |-> "value", value |-> <<>>]
            /\ fut[c] = <<>> /\ ndisp[c] = 0 /\ ngets[c] = 0 /\ nsets[c] = 0

\* C6's case: the feed answered 301 and had an entry.
C6_Witness ==
    \E c \in Callers :
        /\ feed[c].status = 301 /\ feed[c].entries # <<>>
        /\ Returned(c) /\ ret[c].value = <<>>

\* C7: once a process_single_post call of a run has raised, the run returns
\* no list and sets nothing in the cache, which stays as the call found it,
\* and get_cached_news ends by raising; a list that is returned and stored
\* has one record per entry of the feed and none is the raised call's.
C7_FailFast ==
    \A c \in Callers :
        /\ (\E i \in DOMAIN fut[c] : fut[c][i] = "failed") =>
              /\ pc[c] \in {"collect", "shutdown", "raised"}
              /\ ret[c].kind # "value"
              /\ nsets[c] = 0
              /\ cache = cache_at_call[c]
        /\ pc[c] = "raised" =>
              /\ ret[c].kind = "raise"
              /\ \E i \in DOMAIN fut[c] : fut[c][i] = "failed"
        /\ (Returned(c) /\ feed[c].status = 200) =>
              /\ Len(ret[c].value) = Len(feed[c].entries)
              /\ cache.value = ret[c].value
              /\ \A i \in 1..Len(ret[c].value) : ret[c].value[i] # Raised

\* C7's case: the call on the second entry raised after the call on the
\* first had ended well, and get_cached_news raised with the cache empty.
C7_Witness ==
    \E c \in Callers :
        /\ pc[c] = "raised"
        /\ Len(fut[c]) = 2 /\ fut[c][1] = "yielded" /\ fut[c][2] = "failed"
        /\ cache = NoEntry

\* C8: the image of the record is the scraped image when there is one and
\* the placeholder otherwise, never None or ""; the excerpt is smart_truncate
\* of the scraped description when there is one, and smart_truncate of the
\* cleaned feed snippet otherwise.
C8_FallbackPolicy ==
    (fn_pc = "done" /\ fn_rec # Raised) =>
        /\ fn_rec.image = IF Truthy(fn_scraped.image) THEN fn_scraped.image ELSE Placeholder
        /\ Truthy(fn_rec.image)
        /\ fn_rec.excerpt =
              IF Truthy(fn_scraped.description)
              THEN smart_truncate(fn_scraped.description, DefaultLength, Ellipsis)
              ELSE smart_truncate(clean_text(fn_entry.content), DefaultLength, Ellipsis)

\* C8's case: the page gave neither image nor description, and the record
\* has the placeholder and the excerpt of the feed snippet.
C8_Witness ==
    /\ fn_pc = "done" /\ fn_rec # Raised
    /\ fn_page.kind = "response" /\ fn_page.status = 200
    /\ fn_scraped = NoData
    /\ fn_entry.content = Snippet
    /\ fn_rec.image = Placeholder
    /\ fn_rec.excerpt = <<"a", " ", "l", "a", "p", " ", ">">>

\* C9: for a text longer than the limit (a limit of 1 or more) whose first
\* `length` characters hold no space, smart_truncate returns exactly the
\* suffix.
C9_NoSpaceYieldsSuffix ==
    (/\ fn_pc = "done"
     /\ fn_length >= 1
     /\ Len(fn_content) > fn_length
     /\ \A i \in 1..fn_length : fn_content[i] # " ") =>
        fn_out = fn_suffix

\* C10: for a text longer than the limit, what smart_truncate returns
\* before the suffix does not end with a letter that the text follows with
\* another letter.
C10_NeverSplitsWord ==
    (fn_pc = "done" /\ Len(fn_content) > fn_length) =>
        LET k == Len(fn_out) - Len(fn_suffix)
        IN  ~(/\ k >= 1
              /\ fn_out[k] # " "
              /\ SubSeq(fn_out, 1, k) = SubSeq(fn_content, 1, k)
              /\ fn_content[k + 1] # " ")

\* C11: for every text, limit and suffix, smart_truncate returns a text of
\* at most length + len(suffix) characters, and returns the text itself,
\* with no suffix, when the text is no longer than the limit.
C11_LengthBoundAndIdentity ==
    fn_pc = "done" =>
        /\ fn_out # IndexError
        /\ Len(fn_out) <= fn_length + Len(fn_suffix)
        /\ Len(fn_content) <= fn_length => fn_out = fn_content

\* Whether text s holds character ch.
Holds(s, ch) == \E i \in 1..Len(s) : s[i] = ch

\* C12, as claimed: clean_text of what clean_text returned is that same
\* text, for every text.
C12_Idempotent ==
    fn_pc = "done" => fn_again = fn_out

\* C12, amended: clean_text of what clean_text returned is that same text
\* whenever what clean_text returned holds neither '<' nor '&'.
C12_IdempotentOnPlainOutput ==
    (fn_pc = "done" /\ ~Holds(fn_out, "<") /\ ~Holds(fn_out, "&")) => fn_again = fn_out

\* C12's case: a text with whitespace, a tag and a reference was cleaned
\* to a text that the second call returns as it is.
C12_Witness ==
    /\ fn_pc = "done"
    /\ fn_content = <<" ", "<", "t", ">", "&", "g", "t", ";">>
    /\ fn_out = <<">">>
    /\ fn_again = fn_out

\* Whether text s holds a '<' with a '>' somewhere after it.
HoldsPair(s) == \E i \in 1..Len(s) : \E j \in (i + 1)..Len(s) : s[i] = "<" /\ s[j] = ">"

\* Whether text s holds a named reference that html.unescape would decode.
HoldsEntity(s) == Unescape(s) # s

\* Whether fn_out is what clean_text returned for fn_content.
Cleaned == fn_pc \in {"cleaned", "done"}

\* C13, as claimed: what clean_text returns holds no '<' ... '>' pair and
\* no named reference left to decode, for every text; for None and for the
\* empty text it returns the empty text.
C13_MarkupFree ==
    Cleaned =>
        /\ fn_content \in {None, <<>>} => fn_out = <<>>
        /\ ~HoldsPair(fn_out)
        /\ ~HoldsEntity(fn_out)

\* Every '<' of t opens a tag: one or more characters other than '<' follow
\* it, and then a '>'.
TagsClosed(t) == \A i \in 1..Len(t) : t[i] = "<" => TagAt(t, i)

\* Every '&' of t starts a named reference that ends with ';', that html5
\* lists, and that decodes to a character other than '<' and '&'.
RefsPlain(t) ==
    \A i \in 1..Len(t) :
        t[i] = "&" =>
            /\ RefLen(t, i) > 0
            /\ LET tok == SubSeq(t, i + 1, i + RefLen(t, i))
               IN  /\ tok[Len(tok)] = ";"
                   /\ InHtml5(tok)
                   /\ Html5Val(tok) \notin {"<", "&"}

\* C13, amended: for None and for the empty text clean_text returns the
\* empty text; for a text all of whose '<' open a tag and all of whose '&',
\* once the tags are taken out, start a listed named reference that decodes
\* to neither '<' nor '&', it returns a text without '<' and without '&'.
C13_MarkupFreeOnPlainInput ==
    Cleaned =>
        /\ fn_content \in {None, <<>>} => fn_out = <<>>
        /\ (fn_content # None /\ TagsClosed(fn_content) /\ RefsPlain(StripTags(fn_content))) =>
              (~Holds(fn_out, "<") /\ ~Holds(fn_out, "&"))

\* C13's case: a tag, a letter and a reference were cleaned to the letter
\* and the decoded character.
C13_Witness ==
    /\ Cleaned
    /\ fn_content = <<"<", "t", ">", "a", "&", "g", "t", ";">>
    /\ TagsClosed(fn_content) /\ RefsPlain(StripTags(fn_content))
    /\ fn_out = <<"a", ">">>

\* The fields of the parts that give the `url` parameter a value.
UrlHits(parts) ==
    {i \in 1..Len(parts.fields) :
        parts.fields[i].name = "url" /\ parts.fields[i].value # None}

\* C14: get_real_url returns the decoded value of the first `url` field
\* that has one; it returns the URL it was given when no field gives `url`
\* a value, and when the URL is malformed; it never raises.
C14_ResolverTotal ==
    fn_pc = "done" =>
        fn_out = IF fn_parts.base.malformed \/ UrlHits(fn_parts) = {}
                 THEN fn_content
                 ELSE fn_parts.fields[SetMin(UrlHits(fn_parts))].value

\* C14's case: the second field of the query gives `url` a percent-encoded
\* value, after a field of another name, and a fragment follows.
C14_Witness ==
    /\ fn_pc = "done"
    /\ fn_content = <<"h", ":", "/", "/", "l", "/", "r", "?", "x", "=", "u", "&",
                      "u", "r", "l", "=", "h", ":", "%", "2", "F", "%", "2", "F", "n",
                      "#", "u", "r", "l", "=", "u">>
    /\ fn_out = <<"h", ":", "/", "/", "n">>

\* The complete list of the run of caller c when every GET met FullPage:
\* the enriched record of each entry of the feed the run read, in order.
RunList(c) == [i \in 1..Len(feed[c].entries) |-> Enriched(feed[c].entries[i])]

\* C15: whenever the cache entry changes, a run has just ended its
\* collection and what is now stored is the complete list of that one run,
\* one record per entry of the feed it read, also while the other caller's
\* run is under way or has written.
C15_CompleteListOnly ==
    [][cache' # cache =>
          \E c \in Callers :
              /\ pc[c] = "collect" /\ pc'[c] = "done"
              /\ cache'.present
              /\ Len(cache'.value) = Len(feed[c].entries)
              /\ cache'.value = RunList(c)]_vars

\* C15's case: both callers missed, the runs read different feeds, both
\* wrote, and the cache holds the two records of the longer feed.
C15_Witness ==
    /\ \A c \in Callers : ~hit[c] /\ nsets[c] = 1 /\ nfetch[c] = 1
    /\ feed["index"].entries = <<GoodEntry1>>
    /\ feed["posts"].entries = <<GoodEntry2, GoodEntry1>>
    /\ cache.value = <<Enriched(GoodEntry2), Enriched(GoodEntry1)>>

\* C16: calls that overlap on an absent or expired key each fetch the feed
\* and run the pool; each returns the complete list of its own run; every
\* cache.set leaves in the cache the list of the run that made it, expiring
\* 900 time units after that set, so the cache ends with the last one.
C16_NoSingleFlight ==
    /\ [](\A c \in Callers :
            (Returned(c) /\ ~hit[c]) => (nfetch[c] = 1 /\ ret[c].value = RunList(c)))
    /\ [][\A c \in Callers :
            nsets'[c] = nsets[c] + 1 =>
                cache' = [present |-> TRUE, value |-> RunList(c), expires |-> now + TTL]]_vars

\* C16's case: both calls missed at time 0 and each fetched the feed; they
\* returned different lists; the call of posts set the cache last, one
\* tick later, and the cache holds its list until 900 after that.
C16_Witness ==
    /\ \A c \in Callers : Returned(c) /\ ~hit[c] /\ nfetch[c] = 1 /\ miss_at[c] = 0
    /\ \A c \in Callers : cache_at_call[c] = NoEntry /\ nsets[c] = 1
    /\ ret["index"].value # ret["posts"].value
    /\ now = TimeStep
    /\ cache = [present |-> TRUE, value |-> ret["posts"].value, expires |-> TimeStep + TTL]

\* C17: at every instant of a run at most 10 process_single_post calls,
\* hence at most 10 page fetches, are in progress, also for a feed of more
\* than 10 entries.
C17_BoundedConcurrency ==
    \A c \in Callers :
        /\ Cardinality({i \in DOMAIN fut[c] : fut[c][i] = "running"}) <= 10
        /\ ndisp[c] - Cardinality({i \in DOMAIN fut[c] :
                                     fut[c][i] \in {"done", "failed", "yielded"}}) <= 10

\* C17's case: 10 calls are running and the eleventh entry waits.
C17_Witness ==
    \E c \in Callers :
        /\ Len(fut[c]) = 11
        /\ \A i \in 1..10 : fut[c][i] = "running"
        /\ fut[c][11] = "pending"

\* C18: on a miss with a feed that answers 200, get_cached_news has not
\* returned and has not called cache.set unless every entry was started
\* exactly once and its result taken; and, the threads being scheduled and
\* every call ending, it eventually returns.
C18_RunCompletes ==
    /\ [](\A c \in Callers :
            ((pc[c] = "done" \/ nsets[c] > 0) /\ feed[c].status = 200) =>
                /\ Len(fut[c]) = Len(feed[c].entries)
                /\ \A i \in DOMAIN fut[c] : fut[c][i] = "yielded"
                /\ ndisp[c] = Len(feed[c].entries)
                /\ ngets[c] = Len(feed[c].entries)
                /\ Len(ret[c].value) = Len(feed[c].entries))
    /\ \A c \in Callers : (pc[c] = "collect") ~> (pc[c] = "done")

\* C18's case: a run over 11 entries has returned 11 records and stored them.
C18_Witness ==
    \E c \in Callers :
        /\ Returned(c) /\ Len(feed[c].entries) = 11
        /\ ndisp[c] = 11 /\ Len(ret[c].value) = 11
        /\ cache.value = ret[c].value

\* C19: scrape_article_data issues at most one GET, and none for an empty
\* or absent URL; when the GET ends without a response or with a status
\* other than 200, image and description are both None; on a 200 response
\* the image is the content of the og:image meta, None without that meta,
\* and the description is the cleaned content of the og:description meta
\* when the page has that meta, else the cleaned content of the standard
\* description meta when the page has that one, else None.
C19_ExtractionOrder ==
    fn_pc = "done" =>
        /\ fn_gets <= 1
        /\ fn_content \in {None, <<>>} => (fn_gets = 0 /\ fn_scraped = NoData)
        /\ (fn_page.kind # "response" \/ fn_page.status # 200) =>
              (fn_scraped.image = None /\ fn_scraped.description = None)
        /\ (fn_content \notin {None, <<>>} /\ fn_page.kind = "response" /\ fn_page.status = 200) =>
              /\ fn_gets = 1
              /\ fn_scraped.image =
                    IF fn_page.og_image = NoTag THEN None ELSE fn_page.og_image
              /\ fn_page.og_desc # NoTag =>
                    fn_scraped.description = clean_text(fn_page.og_desc)
              /\ (fn_page.og_desc = NoTag /\ fn_page.meta_desc # NoTag) =>
                    fn_scraped.description = clean_text(fn_page.meta_desc)
              /\ (fn_page.og_desc = NoTag /\ fn_page.meta_desc = NoTag) =>
                    fn_scraped.description = None

\* C19's case: a 200 page with an og:image, no og:description and a
\* standard description "<b>ma</b> &amp; pa" gave the image and "ma & pa"
\* with one GET.
C19_Witness ==
    /\ fn_pc = "done"
    /\ fn_gets = 1
    /\ fn_page = Page("response", 200, Img, NoTag, MarkupTitle)
    /\ fn_scraped = [image |-> <<"h://n/i.png">>,
                     description |-> <<"m", "a", " ", "&", " ", "p", "a">>]

=============================================================================
